---- MODULE Spec2Model ----
(***************************************************************************)
(* Model of the SP1 fibonacci/monotree example:                            *)
(*   - program/src/main.rs : the state-transition program run in the zkVM  *)
(*   - script/src/bin/main.rs : the host script (execute/generate/verify)  *)
(* Unsigned 32-bit words are scaled down to WordBits bits so that the      *)
(* wrap-around cases are within reach of the model checker.                *)
(***************************************************************************)
EXTENDS Integers, Sequences, FiniteSets, TLC

\* ---------------------------------------------------------------- bounds
WordBits == 2
MaxN == 2
MaxOffset == 2

Modulus == 2 ^ WordBits

\* ------------------------------------------------------ program constants
U8Modulus == 256
KeyByte == 1

\* ------------------------------------------------------------ pure helpers

\* fibonacci_lib::fibonacci: n steps of (a, b) -> (b, a + b) from (0, 1).
RECURSIVE FibIter(_, _, _)
FibIter(a, b, k) ==
    IF k = 0 THEN <<a, b>> ELSE FibIter(b, (a + b) % Modulus, k - 1)

fibonacci(n) == FibIter(0, 1, n)

\* `(a + offset, b + offset)`: the two sums before they are fitted in a u32.
OffsetPairLeftOnly(a, b, offset) == <<a + offset, b>>

OffsetPair(a, b, offset) == <<a + offset, b + offset>>

Overflows(sums) == sums[1] >= Modulus \/ sums[2] >= Modulus

Wrapped(sums) == <<sums[1] % Modulus, sums[2] % Modulus>>

\* Option<Hash>
NoRoot == [some |-> FALSE, h |-> <<0, 0>>]
SomeRoot(h) == [some |-> TRUE, h |-> h]

\* Option<Vec<u8>> returned by get
NoLeaf == [some |-> FALSE, v |-> 0]
SomeLeaf(v) == [some |-> TRUE, v |-> v]

\* `[b as u8; 32]`
LeafOf(b) == b % U8Modulus

\* Root digest of the tree holding the single binding key -> leaf.
Digest(key, leaf) == <<key, leaf>>

\* Monotree::insert: stores the node and yields the new root.
TreeInsert(db, key, leaf) ==
    [db |-> db \cup {[h |-> Digest(key, leaf), key |-> key, leaf |-> leaf]},
     root |-> SomeRoot(Digest(key, leaf))]

\* Monotree::get: None for the empty root, else the leaf bound under root.
TreeGet(db, rt, key) ==
    IF ~rt.some THEN NoLeaf
    ELSE IF \E nd \in db : nd.h = rt.h /\ nd.key = key
         THEN SomeLeaf((CHOOSE nd \in db : nd.h = rt.h /\ nd.key = key).leaf)
         ELSE NoLeaf

\* `for _i in 0..offset`
LoopContinuesOffByOne(i, offset) == i + 1 < offset

LoopContinues(i, offset) == i < offset

\* PublicValuesStruct::abi_encode: one 32-byte word per field; a uint32 is
\* left-padded with zeros, a bytes32 is copied as is.  A word is two cells.
AbiEncode(pv) == <<0, pv.n, 0, pv.a, 0, pv.b, pv.root[1], pv.root[2]>>

AbiError == [ok |-> FALSE, n |-> 0, a |-> 0, b |-> 0, root |-> <<0, 0>>]

\* PublicValuesStruct::abi_decode(bytes, true): the buffer must re-encode to
\* itself (four words, zero padding on the uint32 fields).
AbiDecode(bytes) ==
    IF Len(bytes) = 8 /\ bytes[1] = 0 /\ bytes[3] = 0 /\ bytes[5] = 0
         /\ bytes[2] < Modulus /\ bytes[4] < Modulus /\ bytes[6] < Modulus
    THEN [ok |-> TRUE, n |-> bytes[2], a |-> bytes[4], b |-> bytes[6],
          root |-> <<bytes[7], bytes[8]>>]
    ELSE AbiError

\* `let PublicValuesStruct { n, a, b } = decoded;`
Destructure(d) == [n |-> d.n, a |-> d.a, b |-> d.b]

\* ------------------------------------------------------------------ state
VARIABLES
    \* state-transition program (guest)
    gpc, gerr, gn, goffset, ga, gb, leaf, root, tree, gi, found, committed,
    \* host script, one invocation
    args, hpc, herr, exitCode, clientCreated, proverCalls, fileOps, flows,
    branch, stdin, out, proof, keys, json, seen, verifyResult,
    \* the disk and what earlier invocations left behind
    file, fileBefore, persisted, lastExec

gvars == <<gpc, gerr, gn, goffset, ga, gb, leaf, root, tree, gi, found,
           committed>>
hvars == <<args, hpc, herr, exitCode, clientCreated, proverCalls, fileOps,
           flows, branch, stdin, out, proof, keys, json, seen, verifyResult>>
dvars == <<file, fileBefore, persisted, lastExec>>
vars == <<gvars, hvars, dvars>>

GuestTerminal == {"done", "abort"}

\* ----------------------------------------------- state-transition program

GuestReset ==
    /\ gpc' = "idle" /\ gerr' = "none"
    /\ gn' = 0 /\ goffset' = 0 /\ ga' = 0 /\ gb' = 0 /\ leaf' = 0
    /\ root' = NoRoot /\ tree' = {} /\ gi' = 0 /\ found' = NoLeaf
    /\ committed' = <<>>

\* The prover loads the ELF: a fresh run of the program.
GuestStart ==
    /\ gpc' = "read" /\ gerr' = "none"
    /\ gn' = 0 /\ goffset' = 0 /\ ga' = 0 /\ gb' = 0 /\ leaf' = 0
    /\ root' = NoRoot /\ tree' = {} /\ gi' = 0 /\ found' = NoLeaf
    /\ committed' = <<>>

GuestAbort(why) ==
    /\ gpc' = "abort"
    /\ gerr' = why

\* sp1_zkvm::io::read::<u32>() twice
ReadInputs ==
    /\ gpc = "read"
    /\ gn' = stdin[1]
    /\ goffset' = stdin[2]
    /\ gpc' = "fib"
    /\ UNCHANGED <<gerr, ga, gb, leaf, root, tree, gi, found, committed>>
    /\ UNCHANGED <<hvars, dvars>>

\* let (a, b) = fibonacci(n);
ComputeFib ==
    /\ gpc = "fib"
    /\ ga' = fibonacci(gn)[1]
    /\ gb' = fibonacci(gn)[2]
    /\ gpc' = "add"
    /\ UNCHANGED <<gerr, gn, goffset, leaf, root, tree, gi, found, committed>>
    /\ UNCHANGED <<hvars, dvars>>

\* let (a, b) = (a + offset, b + offset);
\* A u32 `+` that overflows panics when the build has overflow checks and
\* wraps when it has not.
AddOffset ==
    /\ gpc = "add"
    /\ LET sums == OffsetPair(ga, gb, goffset) IN
       \E overflowChecks \in BOOLEAN :
          IF Overflows(sums) /\ overflowChecks
          THEN /\ GuestAbort("overflow")
               /\ UNCHANGED <<ga, gb>>
          ELSE /\ ga' = Wrapped(sums)[1]
               /\ gb' = Wrapped(sums)[2]
               /\ gpc' = "prepare"
               /\ UNCHANGED gerr
    /\ UNCHANGED <<gn, goffset, leaf, root, tree, gi, found, committed>>
    /\ UNCHANGED <<hvars, dvars>>

\* tree = Monotree::new(..); root = None; key = [1; 32]; leaf = [b as u8; 32]
PrepareTree ==
    /\ gpc = "prepare"
    /\ tree' = {}
    /\ root' = NoRoot
    /\ leaf' = LeafOf(gb)
    /\ gi' = 0
    /\ gpc' = "loop"
    /\ UNCHANGED <<gerr, gn, goffset, ga, gb, found, committed>>
    /\ UNCHANGED <<hvars, dvars>>

\* One iteration of the loop: insert(..).expect(..); assert_ne!(root, None).
\* The store answers Ok(root) or, when it is broken, Err.
InsertStep ==
    /\ gpc = "loop"
    /\ LoopContinues(gi, goffset)
    /\ \E storeOk \in BOOLEAN :
          IF ~storeOk
          THEN /\ GuestAbort("insert")
               /\ UNCHANGED <<root, tree, gi>>
          ELSE LET r == TreeInsert(tree, KeyByte, leaf) IN
               /\ tree' = r.db
               /\ root' = r.root
               /\ gi' = gi + 1
               /\ IF r.root = NoRoot
                  THEN GuestAbort("assert_ne")
                  ELSE UNCHANGED <<gpc, gerr>>
    /\ UNCHANGED <<gn, goffset, ga, gb, leaf, found, committed>>
    /\ UNCHANGED <<hvars, dvars>>

\* let found = tree.get(root.as_ref(), &key).unwrap();
\* assert_eq!(found, Some(leaf));
GetCheck ==
    /\ gpc = "loop"
    /\ ~LoopContinues(gi, goffset)
    /\ \E storeOk \in BOOLEAN :
          IF ~storeOk
          THEN /\ GuestAbort("get")
               /\ UNCHANGED found
          ELSE /\ found' = TreeGet(tree, root, KeyByte)
               /\ IF found' = SomeLeaf(leaf)
                  THEN gpc' = "unwrap" /\ UNCHANGED gerr
                  ELSE GuestAbort("assert_eq")
    /\ UNCHANGED <<gn, goffset, ga, gb, leaf, root, tree, gi, committed>>
    /\ UNCHANGED <<hvars, dvars>>

\* let root = root.unwrap(); abi_encode; commit_slice(&bytes);
EncodeCommit ==
    /\ gpc = "unwrap"
    /\ IF ~root.some
       THEN /\ GuestAbort("unwrap_root")
            /\ UNCHANGED committed
       ELSE /\ committed' = Append(committed,
                   AbiEncode([n |-> gn, a |-> ga, b |-> gb, root |-> root.h]))
            /\ gpc' = "done"
            /\ UNCHANGED gerr
    /\ UNCHANGED <<gn, goffset, ga, gb, leaf, root, tree, gi, found>>
    /\ UNCHANGED <<hvars, dvars>>

GuestNext ==
    \/ ReadInputs
    \/ ComputeFib
    \/ AddOffset
    \/ PrepareTree
    \/ InsertStep
    \/ GetCheck
    \/ EncodeCommit

\* ------------------------------------------------------------ host helpers

Modes == [execute : BOOLEAN, generate : BOOLEAN, verify : BOOLEAN,
          n : 0..MaxN, offset : 0..MaxOffset]

NoArgs == [execute |-> FALSE, generate |-> FALSE, verify |-> FALSE,
           n |-> 0, offset |-> 0]

\* `!args.execute && !args.generate && !args.verify`
NoModeSelectedVerifyUnnegated(a) == ~a.execute /\ ~a.generate /\ a.verify

NoModeSelected(a) == ~a.execute /\ ~a.generate /\ ~a.verify

\* The arm of the `if / else if / else if` chain tested at position p.
ArmFlag(a, p) ==
    IF p = 1 THEN a.execute ELSE IF p = 2 THEN a.generate ELSE a.verify

\* Where control goes once the arm at position p has run: the remaining
\* arms are `else` arms, so control leaves the chain (position 4).
AfterTakenFallThrough(p) == p + 1

AfterTaken(p) == 4

Event(tag, val) == [tag |-> tag, val |-> val]

Printed(tag) == \E k \in DOMAIN out : out[k].tag = tag

\* The public values stream: every committed slice, in order.
RECURSIVE PublicValuesStream(_)
PublicValuesStream(slices) ==
    IF slices = <<>> THEN <<>>
    ELSE Head(slices) \o PublicValuesStream(Tail(slices))

NoKeys == [pk |-> "none", vk |-> "none"]

\* client.setup(FIBONACCI_ELF)
Setup == [pk |-> "pk_fibonacci", vk |-> "vk_fibonacci"]

MatchingVk(pk) == IF pk = "pk_fibonacci" THEN "vk_fibonacci" ELSE "none"

NoArtifact == [proof |-> [vk |-> "none", pv |-> <<>>], public_values |-> <<>>]

\* client.prove(&pk, stdin).groth16().run(): the proof attests the public
\* values stream of the run under the key pair of pk.
Prove(pk, stream) ==
    [proof |-> [vk |-> MatchingVk(pk), pv |-> stream], public_values |-> stream]

\* client.verify(&proof, &vk)
ProverVerify(art, k) ==
    IF art.proof.vk = k /\ art.proof.pv = art.public_values
    THEN "ok" ELSE "err"

\* `.expect("failed to verify proof")`
ExpectVerifiedIgnored(result) == TRUE

ExpectVerified(result) == result = "ok"

\* serde_json::to_string(&proof)
ToJsonDropsPublicValues(art) ==
    << Event("open", <<>>), Event("proof", art.proof),
       Event("public_values", <<>>), Event("close", <<>>) >>

ToJson(art) ==
    << Event("open", <<>>), Event("proof", art.proof),
       Event("public_values", art.public_values), Event("close", <<>>) >>

\* serde_json::from_reader(file)
FromJson(data) ==
    IF /\ Len(data) = 4
       /\ data[1].tag = "open" /\ data[2].tag = "proof"
       /\ data[3].tag = "public_values" /\ data[4].tag = "close"
    THEN [ok |-> TRUE,
          art |-> [proof |-> data[2].val, public_values |-> data[3].val]]
    ELSE [ok |-> FALSE, art |-> NoArtifact]

NoFile == [exists |-> FALSE, data |-> <<>>]

\* A proof.json left by somebody else: a proof for another program.
ForeignArtifact ==
    LET bytes == AbiEncode([n |-> 0, a |-> 0, b |-> 1, root |-> <<1, 1>>]) IN
    [proof |-> [vk |-> "vk_other", pv |-> bytes], public_values |-> bytes]

ForeignFile == [exists |-> TRUE, data |-> ToJson(ForeignArtifact)]

NoSeen == [some |-> FALSE, n |-> 0, a |-> 0, b |-> 0]
Seen(d) == [some |-> TRUE] @@ Destructure(d)

NoPersisted == [some |-> FALSE, art |-> NoArtifact, n |-> 0, offset |-> 0]
NoExec == [some |-> FALSE, n |-> 0, offset |-> 0, report |-> NoSeen]

HostTerminal == {"finished", "exited", "panicked"}

Panic(why) ==
    /\ hpc' = "panicked"
    /\ herr' = why
    /\ exitCode' = 101

\* ------------------------------------------------------------- host script

\* A new process: Args::parse().  The disk is what the last process left.
Invoke ==
    /\ hpc = "idle"
    /\ \E a \in Modes : args' = a
    /\ hpc' = "parsed"
    /\ fileBefore' = file
    /\ UNCHANGED <<herr, exitCode, clientCreated, proverCalls, fileOps, flows,
                   branch, stdin, out, proof, keys, json, seen, verifyResult>>
    /\ UNCHANGED <<gvars, file, persisted, lastExec>>

\* The process is gone (end of main, exit(1) or panic): its memory and the
\* run of the program with it; only the disk stays.
ProcessExit ==
    /\ hpc \in HostTerminal
    /\ args' = NoArgs
    /\ hpc' = "idle" /\ herr' = "none" /\ exitCode' = 0
    /\ clientCreated' = FALSE /\ proverCalls' = {} /\ fileOps' = {}
    /\ flows' = {} /\ branch' = 1 /\ stdin' = <<>> /\ out' = <<>>
    /\ proof' = NoArtifact /\ keys' = NoKeys /\ json' = <<>>
    /\ seen' = NoSeen /\ verifyResult' = "none"
    /\ GuestReset
    /\ UNCHANGED dvars

\* if !args.execute && !args.generate && !args.verify { eprintln; exit(1) }
CheckMode ==
    /\ hpc = "parsed"
    /\ IF NoModeSelected(args)
       THEN /\ out' = Append(out, Event("error_no_mode", 0))
            /\ exitCode' = 1
            /\ hpc' = "exited"
       ELSE /\ hpc' = "client"
            /\ UNCHANGED <<out, exitCode>>
    /\ UNCHANGED <<args, herr, clientCreated, proverCalls, fileOps, flows,
                   branch, stdin, proof, keys, json, seen, verifyResult>>
    /\ UNCHANGED <<gvars, dvars>>

\* ProverClient::new(); stdin.write(&n); stdin.write(&offset); println n
SetupClient ==
    /\ hpc = "client"
    /\ clientCreated' = TRUE
    /\ stdin' = <<args.n, args.offset>>
    /\ out' = Append(out, Event("n", args.n))
    /\ hpc' = "dispatch"
    /\ UNCHANGED <<args, herr, exitCode, proverCalls, fileOps, flows, branch,
                   proof, keys, json, seen, verifyResult>>
    /\ UNCHANGED <<gvars, dvars>>

\* An arm of the chain whose flag is not set: the next arm is tested.
SkipArm ==
    /\ hpc = "dispatch"
    /\ branch \in 1..3
    /\ ~ArmFlag(args, branch)
    /\ branch' = branch + 1
    /\ UNCHANGED <<args, hpc, herr, exitCode, clientCreated, proverCalls,
                   fileOps, flows, stdin, out, proof, keys, json, seen,
                   verifyResult>>
    /\ UNCHANGED <<gvars, dvars>>

\* End of main.
EndMain ==
    /\ hpc = "dispatch"
    /\ branch = 4
    /\ hpc' = "finished"
    /\ UNCHANGED <<args, herr, exitCode, clientCreated, proverCalls, fileOps,
                   flows, branch, stdin, out, proof, keys, json, seen,
                   verifyResult>>
    /\ UNCHANGED <<gvars, dvars>>

\* ---- execute

\* client.execute(FIBONACCI_ELF, stdin).run(): the program starts.
ExecuteCall ==
    /\ hpc = "dispatch"
    /\ branch = 1
    /\ ArmFlag(args, 1)
    /\ flows' = flows \cup {"execute"}
    /\ proverCalls' = proverCalls \cup {"execute"}
    /\ GuestStart
    /\ hpc' = "executing"
    /\ UNCHANGED <<args, herr, exitCode, clientCreated, fileOps, branch, stdin,
                   out, proof, keys, json, seen, verifyResult>>
    /\ UNCHANGED dvars

\* .unwrap() of the execution result
ExecuteReturn ==
    /\ hpc = "executing"
    /\ gpc \in GuestTerminal
    /\ IF gpc = "abort"
       THEN /\ Panic("execute")
            /\ UNCHANGED out
       ELSE /\ out' = Append(out, Event("executed", 0))
            /\ hpc' = "decode"
            /\ UNCHANGED <<herr, exitCode>>
    /\ UNCHANGED <<args, clientCreated, proverCalls, fileOps, flows, branch,
                   stdin, proof, keys, json, seen, verifyResult>>
    /\ UNCHANGED <<gvars, dvars>>

\* abi_decode(output, true).unwrap(); println n, a, b, offset
ExecuteDecode ==
    /\ hpc = "decode"
    /\ LET d == AbiDecode(PublicValuesStream(committed)) IN
       IF ~d.ok
       THEN /\ Panic("decode")
            /\ UNCHANGED <<seen, out, lastExec>>
       ELSE /\ seen' = Seen(d)
            /\ out' = Append(out, Event("values", Destructure(d)))
            /\ lastExec' = [some |-> TRUE, n |-> args.n,
                            offset |-> args.offset, report |-> Seen(d)]
            /\ hpc' = "crosscheck"
            /\ UNCHANGED <<herr, exitCode>>
    /\ UNCHANGED <<args, clientCreated, proverCalls, fileOps, flows, branch,
                   stdin, proof, keys, json, verifyResult>>
    /\ UNCHANGED <<gvars, file, fileBefore, persisted>>

\* let (expected_a, expected_b) = fibonacci(n);
\* assert_eq!(a, expected_a + args.offset); assert_eq!(b, ...);
\* println "Values are correct!"; println cycles
CrossCheck ==
    /\ hpc = "crosscheck"
    /\ LET e == fibonacci(seen.n)
           sums == OffsetPair(e[1], e[2], args.offset)
       IN \E overflowChecks \in BOOLEAN :
          IF Overflows(sums) /\ overflowChecks
          THEN /\ Panic("overflow")
               /\ UNCHANGED <<out, branch>>
          ELSE IF seen.a # Wrapped(sums)[1] \/ seen.b # Wrapped(sums)[2]
          THEN /\ Panic("mismatch")
               /\ UNCHANGED <<out, branch>>
          ELSE /\ out' = out \o <<Event("values_correct", 0),
                                  Event("cycles", 0)>>
               /\ hpc' = "dispatch"
               /\ branch' = AfterTaken(1)
               /\ UNCHANGED <<herr, exitCode>>
    /\ UNCHANGED <<args, clientCreated, proverCalls, fileOps, flows, stdin,
                   proof, keys, json, seen, verifyResult>>
    /\ UNCHANGED <<gvars, dvars>>

\* ---- generate

\* let (pk, _) = client.setup(FIBONACCI_ELF);
GenerateSetup ==
    /\ hpc = "dispatch"
    /\ branch = 2
    /\ ArmFlag(args, 2)
    /\ flows' = flows \cup {"generate"}
    /\ proverCalls' = proverCalls \cup {"setup"}
    /\ keys' = [pk |-> Setup.pk, vk |-> "none"]
    /\ hpc' = "prove"
    /\ UNCHANGED <<args, herr, exitCode, clientCreated, fileOps, branch, stdin,
                   out, proof, json, seen, verifyResult>>
    /\ UNCHANGED <<gvars, dvars>>

\* client.prove(&pk, stdin).groth16().run(): the prover runs the program.
ProveCall ==
    /\ hpc = "prove"
    /\ proverCalls' = proverCalls \cup {"prove"}
    /\ GuestStart
    /\ hpc' = "proving"
    /\ UNCHANGED <<args, herr, exitCode, clientCreated, fileOps, flows, branch,
                   stdin, out, proof, keys, json, seen, verifyResult>>
    /\ UNCHANGED dvars

\* .expect("failed to generate proof"); println proof
ProveReturn ==
    /\ hpc = "proving"
    /\ gpc \in GuestTerminal
    /\ \E proverOk \in BOOLEAN :
          IF gpc = "abort" \/ ~proverOk
          THEN /\ Panic("prove")
               /\ UNCHANGED <<proof, out>>
          ELSE /\ proof' = Prove(keys.pk, PublicValuesStream(committed))
               /\ out' = Append(out, Event("generated", 0))
               /\ hpc' = "save_create"
               /\ UNCHANGED <<herr, exitCode>>
    /\ UNCHANGED <<args, clientCreated, proverCalls, fileOps, flows, branch,
                   stdin, keys, json, seen, verifyResult>>
    /\ UNCHANGED <<gvars, dvars>>

\* save_proof_to_json: File::create("proof.json")?  (creates or truncates)
SaveCreate ==
    /\ hpc = "save_create"
    /\ fileOps' = fileOps \cup {"create"}
    /\ \E ioOk \in BOOLEAN :
          IF ~ioOk
          THEN /\ Panic("save")
               /\ UNCHANGED <<file, persisted>>
          ELSE /\ file' = [exists |-> TRUE, data |-> <<>>]
               /\ persisted' = NoPersisted
               /\ hpc' = "save_serialize"
               /\ UNCHANGED <<herr, exitCode>>
    /\ UNCHANGED <<args, clientCreated, proverCalls, flows, branch, stdin, out,
                   proof, keys, json, seen, verifyResult>>
    /\ UNCHANGED <<gvars, fileBefore, lastExec>>

\* serde_json::to_string(&proof).expect("Failed to serialize proof")
SaveSerialize ==
    /\ hpc = "save_serialize"
    /\ \E serOk \in BOOLEAN :
          IF ~serOk
          THEN /\ Panic("serialize")
               /\ UNCHANGED json
          ELSE /\ json' = ToJson(proof)
               /\ hpc' = "save_write"
               /\ UNCHANGED <<herr, exitCode>>
    /\ UNCHANGED <<args, clientCreated, proverCalls, fileOps, flows, branch,
                   stdin, out, proof, keys, seen, verifyResult>>
    /\ UNCHANGED <<gvars, dvars>>

\* file.write_all(proof_json.as_bytes())?; println saved; Ok(())
\* A failing write leaves the first k bytes in the file.
SaveWrite ==
    /\ hpc = "save_write"
    /\ fileOps' = fileOps \cup {"write"}
    /\ \E k \in 0..Len(json) :
          /\ file' = [exists |-> TRUE, data |-> SubSeq(json, 1, k)]
          /\ IF k < Len(json)
             THEN /\ Panic("save")
                  /\ UNCHANGED <<out, branch, persisted>>
             ELSE /\ out' = Append(out, Event("saved", 0))
                  /\ persisted' = [some |-> TRUE, art |-> proof,
                                   n |-> args.n, offset |-> args.offset]
                  /\ hpc' = "dispatch"
                  /\ branch' = AfterTaken(2)
                  /\ UNCHANGED <<herr, exitCode>>
    /\ UNCHANGED <<args, clientCreated, proverCalls, flows, stdin, proof, keys,
                   json, seen, verifyResult>>
    /\ UNCHANGED <<gvars, fileBefore, lastExec>>

\* ---- verify

\* let (_, vk) = client.setup(FIBONACCI_ELF);
VerifySetup ==
    /\ hpc = "dispatch"
    /\ branch = 3
    /\ ArmFlag(args, 3)
    /\ flows' = flows \cup {"verify"}
    /\ proverCalls' = proverCalls \cup {"setup"}
    /\ keys' = [pk |-> "none", vk |-> Setup.vk]
    /\ hpc' = "load"
    /\ UNCHANGED <<args, herr, exitCode, clientCreated, fileOps, branch, stdin,
                   out, proof, json, seen, verifyResult>>
    /\ UNCHANGED <<gvars, dvars>>

\* load_proof_from_json(): File::open(..).expect(..);
\* serde_json::from_reader(file).expect(..); println loaded proof
LoadProof ==
    /\ hpc = "load"
    /\ fileOps' = fileOps \cup {"open"}
    /\ IF ~file.exists
       THEN /\ Panic("open")
            /\ UNCHANGED <<proof, out>>
       ELSE LET r == FromJson(file.data) IN
            IF ~r.ok
            THEN /\ Panic("deserialize")
                 /\ UNCHANGED <<proof, out>>
            ELSE /\ proof' = r.art
                 /\ out' = Append(out, Event("loaded", 0))
                 /\ hpc' = "verify"
                 /\ UNCHANGED <<herr, exitCode>>
    /\ UNCHANGED <<args, clientCreated, proverCalls, flows, branch, stdin,
                   keys, json, seen, verifyResult>>
    /\ UNCHANGED <<gvars, dvars>>

\* client.verify(&proof, &vk).expect("failed to verify proof");
\* println "Successfully verified proof!"; println public_values hex
VerifyCall ==
    /\ hpc = "verify"
    /\ proverCalls' = proverCalls \cup {"verify"}
    /\ verifyResult' = ProverVerify(proof, keys.vk)
    /\ IF ~ExpectVerified(verifyResult')
       THEN /\ Panic("verify")
            /\ UNCHANGED out
       ELSE /\ out' = out \o <<Event("verified", 0),
                               Event("public_values_hex", proof.public_values)>>
            /\ hpc' = "verify_decode"
            /\ UNCHANGED <<herr, exitCode>>
    /\ UNCHANGED <<args, clientCreated, fileOps, flows, branch, stdin, proof,
                   keys, json, seen>>
    /\ UNCHANGED <<gvars, dvars>>

\* abi_decode(proof.public_values, true).unwrap(); println n, a, b
VerifyDecode ==
    /\ hpc = "verify_decode"
    /\ LET d == AbiDecode(proof.public_values) IN
       IF ~d.ok
       THEN /\ Panic("decode")
            /\ UNCHANGED <<seen, out, branch>>
       ELSE /\ seen' = Seen(d)
            /\ out' = Append(out, Event("values", Destructure(d)))
            /\ hpc' = "dispatch"
            /\ branch' = AfterTaken(3)
            /\ UNCHANGED <<herr, exitCode>>
    /\ UNCHANGED <<args, clientCreated, proverCalls, fileOps, flows, stdin,
                   proof, keys, json, verifyResult>>
    /\ UNCHANGED <<gvars, dvars>>

HostNext ==
    \/ Invoke
    \/ ProcessExit
    \/ CheckMode
    \/ SetupClient
    \/ SkipArm
    \/ EndMain
    \/ ExecuteCall
    \/ ExecuteReturn
    \/ ExecuteDecode
    \/ CrossCheck
    \/ GenerateSetup
    \/ ProveCall
    \/ ProveReturn
    \/ SaveCreate
    \/ SaveSerialize
    \/ SaveWrite
    \/ VerifySetup
    \/ LoadProof
    \/ VerifyCall
    \/ VerifyDecode

\* ----------------------------------------------------------- specification

\* No process has run yet; proof.json is absent or was left by somebody else.
Init ==
    /\ gpc = "idle" /\ gerr = "none"
    /\ gn = 0 /\ goffset = 0 /\ ga = 0 /\ gb = 0 /\ leaf = 0
    /\ root = NoRoot /\ tree = {} /\ gi = 0 /\ found = NoLeaf
    /\ committed = <<>>
    /\ args = NoArgs
    /\ hpc = "idle" /\ herr = "none" /\ exitCode = 0
    /\ clientCreated = FALSE /\ proverCalls = {} /\ fileOps = {}
    /\ flows = {} /\ branch = 1 /\ stdin = <<>> /\ out = <<>>
    /\ proof = NoArtifact /\ keys = NoKeys /\ json = <<>>
    /\ seen = NoSeen /\ verifyResult = "none"
    /\ file \in {NoFile, ForeignFile}
    /\ fileBefore = file
    /\ persisted = NoPersisted
    /\ lastExec = NoExec

Next == GuestNext \/ HostNext

Spec == Init /\ [][Next]_vars

\* ------------------------------------------------------------- properties

ProgramOverflows ==
    \/ fibonacci(gn)[1] + goffset >= Modulus
    \/ fibonacci(gn)[2] + goffset >= Modulus

ProgramPastAdd == gpc \in {"prepare", "loop", "unwrap", "done", "abort"}

\* C1: with offset = 0 a run of the program whose store answers completes:
\* it ends in "done" with one committed record, no insertion, root None and
\* a, b equal to fibonacci(n).
C1_OffsetZeroCompletes ==
    (gpc \in GuestTerminal /\ goffset = 0 /\ gerr # "get") =>
        /\ gpc = "done"
        /\ Len(committed) = 1
        /\ gi = 0
        /\ root = NoRoot
        /\ ga = fibonacci(gn)[1]
        /\ gb = fibonacci(gn)[2]

C3_OverflowNeverCommits ==
    (ProgramPastAdd /\ ProgramOverflows) =>
        /\ committed = <<>>
        /\ gpc # "done"

\* C4: a run commits at most one record; an aborted run has committed
\* nothing; a finished run has committed exactly one; and a record is
\* committed only once the loop has run offset times, the get self-check
\* has found the leaf and the root is present.
C4_CommitOnceAfterChecks ==
    /\ Len(committed) <= 1
    /\ gpc = "abort" => committed = <<>>
    /\ gpc = "done" => Len(committed) = 1
    /\ committed # <<>> =>
          /\ gpc = "done"
          /\ gerr = "none"
          /\ gi = goffset
          /\ found = SomeLeaf(leaf)
          /\ root.some

C4_Witness ==
    /\ gpc = "done"
    /\ Len(committed) = 1
    /\ goffset >= 2
    /\ gi = goffset

\* C5: a generate invocation that failed has left proof.json as it found it.
C5_FailedGenerateLeavesFile ==
    ("generate" \in flows /\ hpc = "panicked") => file = fileBefore

ValidForProgram(art) ==
    art.proof.vk = "vk_fibonacci" /\ art.proof.pv = art.public_values

VerifyReported ==
    Printed("verified") \/ Printed("public_values_hex") \/ Printed("values")

UnusableFile ==
    \/ ~file.exists
    \/ ~FromJson(file.data).ok
    \/ ~ValidForProgram(FromJson(file.data).art)

C7_ConsumerSeesAllFields ==
    ("execute" \in flows /\ seen.some) =>
        LET produced == [n |-> gn, a |-> ga, b |-> gb, root |-> root.h] IN
        \A f \in {"n", "a", "b", "root"} :
            f \in DOMAIN seen /\ seen[f] = produced[f]

\* C8: an invocation without a mode flag ends in exit(1) with the error
\* printed, and has neither created the prover client, nor called the
\* prover, nor run the program, nor touched proof.json.
C8_NoModeExitsEarly ==
    (~args.execute /\ ~args.generate /\ ~args.verify
        /\ hpc \notin {"idle", "parsed"}) =>
        /\ hpc = "exited"
        /\ exitCode = 1
        /\ Printed("error_no_mode")
        /\ ~clientCreated
        /\ proverCalls = {}
        /\ fileOps = {}
        /\ file = fileBefore
        /\ gpc = "idle"

C8_Witness ==
    /\ hpc = "exited"
    /\ ~args.execute /\ ~args.generate /\ ~args.verify

SameInputsExecuted ==
    /\ lastExec.some
    /\ lastExec.n = persisted.n
    /\ lastExec.offset = persisted.offset

\* C9: while the artifact persisted by a successful generate is on disk, the
\* file parses back to that artifact, and a verify invocation loads exactly
\* it, does not panic, and reports the n, a, b that execute reported for the
\* inputs the artifact was generated from.
C9_GenerateThenVerify ==
    persisted.some =>
        /\ file.exists
        /\ FromJson(file.data).ok
        /\ FromJson(file.data).art = persisted.art
        /\ "verify" \in flows =>
              /\ hpc # "panicked"
              /\ hpc # "load" => proof = persisted.art
              /\ seen.some =>
                    /\ seen.n = persisted.n
                    /\ SameInputsExecuted => seen = lastExec.report
              /\ hpc = "finished" =>
                    /\ seen.some
                    /\ Printed("verified")
                    /\ Printed("values")

C9_Witness ==
    /\ persisted.some
    /\ "verify" \in flows
    /\ hpc = "finished"
    /\ seen.some
    /\ SameInputsExecuted

\* C10: whatever flags are given, at most one of the flows execute, generate
\* and verify runs in an invocation, its flag was given, and no invocation
\* both executes and proves or both writes and reads the artifact.
C10_ModesExclusive ==
    /\ Cardinality(flows) <= 1
    /\ "execute" \in flows => args.execute
    /\ "generate" \in flows => args.generate
    /\ "verify" \in flows => args.verify
    /\ ~("execute" \in proverCalls /\ "prove" \in proverCalls)
    /\ ~("prove" \in proverCalls /\ "verify" \in proverCalls)
    /\ ~("create" \in fileOps /\ "open" \in fileOps)

C10_Witness ==
    /\ args.execute /\ args.generate /\ args.verify
    /\ hpc = "finished"
    /\ flows = {"execute"}

====
